---- MODULE Spec2Model ----
(***************************************************************************)
(* Model of lib/easy-cerver.ts (class EasyCerver).                         *)
(*                                                                         *)
(* Two views of the same construct are modelled:                           *)
(*   - the deployed system at run time: executions of the certbot state    *)
(*     machine (CreateCertificate with its retry and catch), the schedule  *)
(*     rule, the tasks of the ECS service, the aws-cli container's shell   *)
(*     script and the default container that depends on it (Spec, FairSpec,*)
(*     WorkflowFairSpec)                                                   *)
(*   - the constructor as a function of its props (SynthSpec).             *)
(***************************************************************************)
EXTENDS Integers, Sequences, FiniteSets, TLC

VARIABLES executions, tasks, props, phase, stack

vars == <<executions, tasks, props, phase, stack>>
rvars == <<executions, tasks>>
svars == <<props, phase, stack>>

(***************************************************************************)
(* Bounds of the model                                                     *)
(***************************************************************************)
\* executions of the state machine that are ever started
MaxExec == 2
\* tasks the service ever launches
MaxTasks == 2
\* longest recordDomainNames list
MaxRecords == 2

(***************************************************************************)
(* Values set by the source                                                *)
(***************************************************************************)
\* certbotRunTask.addRetry({ interval: Duration.seconds(20) })
RetryIntervalSeconds == 20
\* addRetry sets no maxAttempts: the retrier's default
RetryMaxAttempts == 3
\* addRetry sets no backoffRate: the retrier's default
RetryBackoffRate == 2
\* Ec2Service desiredCount / minHealthyPercent / maxHealthyPercent
DesiredCount == 1
MinHealthyPercent == 0
MaxHealthyPercent == 100

None == "None"

ExecIds == 1..MaxExec
TaskIds == 1..MaxTasks

(***************************************************************************)
(* JSON documents, as functions from field names to strings                *)
(***************************************************************************)
\* start-execution without --input: the input is {}
EmptyInput == [k \in {} |-> ""]
\* the event an EventBridge schedule rule hands to its target
ScheduledEvent == [source |-> "aws.events", detailType |-> "Scheduled Event"]
\* the error a failed run of the certbot task raises
ErrorNames == {"States.TaskFailed"}
\* the error output of a failed state
ErrorOutput(err) == [Error |-> err, Cause |-> "certbot"]
\* the result of a successful RUN_JOB task
JobResult == [LastStatus |-> "STOPPED"]

\* doc has every field of part, with the same value
Contains(doc, part) ==
    \A k \in DOMAIN part : k \in DOMAIN doc /\ doc[k] = part[k]

(***************************************************************************)
(* The state machine: CreateCertificate -> (catch) SendEmailOnFailure ->   *)
(* Fail                                                                    *)
(***************************************************************************)
NoExecution ==
    [status |-> "NONE", state |-> None, jobs |-> 0,
     retries |-> 0, wait |-> 0, input |-> EmptyInput, data |-> EmptyInput,
     published |-> <<>>]

\* StartExecution: the execution enters the start state, which runs the job
NewExecution(input) ==
    [status |-> "RUNNING", state |-> "CreateCertificate", jobs |-> 1,
     retries |-> 0, wait |-> 0, input |-> input,
     data |-> input, published |-> <<>>]

FreeExecIds == {e \in ExecIds : executions[e].status = "NONE"}
NextExecId == CHOOSE e \in FreeExecIds : \A f \in FreeExecIds : e <= f

\* the retrier (ErrorEquals States.ALL) applies while attempts remain
RetryAppliesOff(retries) == retries <= RetryMaxAttempts
RetryAppliesAlways(retries) == retries >= 0
RetryApplies(retries) == retries < RetryMaxAttempts

\* seconds before retry number retries + 1
RetryWaitFixed(retries) == RetryIntervalSeconds
RetryWait(retries) == RetryIntervalSeconds * RetryBackoffRate ^ retries

\* the catcher (States.ALL, ResultPath "$"): the error output replaces the
\* state's input
CatchOutputMerged(data, err) ==
    [k \in DOMAIN data \cup DOMAIN ErrorOutput(err) |->
        IF k \in DOMAIN data THEN data[k] ELSE ErrorOutput(err)[k]]
CatchOutput(data, err) == ErrorOutput(err)

\* SendEmailOnFailure: message = TaskInput.fromJsonPathAt("$")
SnsMessage(data) == data

\* the state the catcher goes to
CatchNextSkipsPublish == "Fail"
CatchNext == "SendEmailOnFailure"

\* CertbotScheduleRule fires: its target starts an execution with the event
ScheduleFire ==
    /\ FreeExecIds # {}
    /\ executions' = [executions EXCEPT ![NextExecId] = NewExecution(ScheduledEvent)]
    /\ UNCHANGED <<tasks, svars>>

\* the certbot task exits 0: CreateCertificate has no next state, the
\* execution succeeds (the retrier's count belongs to the state and goes
\* with it)
JobSucceed(e) ==
    /\ executions[e].status = "RUNNING"
    /\ executions[e].state = "CreateCertificate"
    /\ executions[e].jobs > 0
    /\ executions' = [executions EXCEPT
            ![e].jobs = @ - 1,
            ![e].retries = 0,
            ![e].data = JobResult,
            ![e].state = "End",
            ![e].status = "SUCCEEDED"]
    /\ UNCHANGED <<tasks, svars>>

\* the certbot task fails and the retrier applies: wait, then run again
JobFailRetry(e) ==
    /\ executions[e].status = "RUNNING"
    /\ executions[e].state = "CreateCertificate"
    /\ executions[e].jobs > 0
    /\ RetryApplies(executions[e].retries)
    /\ executions' = [executions EXCEPT
            ![e].jobs = @ - 1,
            ![e].wait = RetryWait(executions[e].retries),
            ![e].retries = @ + 1]
    /\ UNCHANGED <<tasks, svars>>

\* the certbot task fails and the retries are used up: the catcher applies
JobFailCatch(e, err) ==
    /\ executions[e].status = "RUNNING"
    /\ executions[e].state = "CreateCertificate"
    /\ executions[e].jobs > 0
    /\ ~RetryApplies(executions[e].retries)
    /\ executions' = [executions EXCEPT
            ![e].jobs = @ - 1,
            ![e].retries = 0,
            ![e].data = CatchOutput(executions[e].data, err),
            ![e].state = CatchNext]
    /\ UNCHANGED <<tasks, svars>>

\* the retry wait is over: the certbot task is run again
RetryFire(e) ==
    /\ executions[e].status = "RUNNING"
    /\ executions[e].state = "CreateCertificate"
    /\ executions[e].jobs = 0
    /\ executions[e].wait > 0
    /\ executions' = [executions EXCEPT
            ![e].jobs = @ + 1,
            ![e].wait = 0]
    /\ UNCHANGED <<tasks, svars>>

\* SendEmailOnFailure publishes to the topic, next is Fail
SendEmailOnFailure(e) ==
    /\ executions[e].status = "RUNNING"
    /\ executions[e].state = "SendEmailOnFailure"
    /\ executions' = [executions EXCEPT
            ![e].published = Append(@, SnsMessage(executions[e].data)),
            ![e].state = "Fail"]
    /\ UNCHANGED <<tasks, svars>>

\* the Fail state ends the execution
Fail(e) ==
    /\ executions[e].status = "RUNNING"
    /\ executions[e].state = "Fail"
    /\ executions' = [executions EXCEPT ![e].status = "FAILED"]
    /\ UNCHANGED <<tasks, svars>>

(***************************************************************************)
(* The ECS service and its task: the aws-cli container (the script of      *)
(* lines 367-377) and the default container that depends on it             *)
(***************************************************************************)
NoTask ==
    [status |-> "NONE", current |-> FALSE, gate |-> "pending", arn |-> 0,
     exitCode |-> -1, served |-> "waiting"]

Running == {t \in TaskIds : tasks[t].status = "RUNNING"}
FreeTaskIds == {t \in TaskIds : tasks[t].status = "NONE"}
NextTaskId == CHOOSE t \in FreeTaskIds : \A u \in FreeTaskIds : t <= u

\* maximumPercent: launching one more task keeps the running tasks within
\* desiredCount * maxHealthyPercent / 100
CanLaunchDoubled(running) == (running + 1) * 100 <= DesiredCount * (MaxHealthyPercent + 100)
CanLaunch(running) == (running + 1) * 100 <= DesiredCount * MaxHealthyPercent

\* minimumHealthyPercent: stopping one task keeps the running tasks at or
\* above desiredCount * minHealthyPercent / 100
CanStop(running) == (running - 1) * 100 >= DesiredCount * MinHealthyPercent

\* the service scheduler launches a task of the current deployment; its
\* aws-cli container has no dependency and starts with the task
LaunchTask ==
    /\ FreeTaskIds # {}
    /\ Cardinality({t \in Running : tasks[t].current}) < DesiredCount
    /\ CanLaunch(Cardinality(Running))
    /\ tasks' = [tasks EXCEPT ![NextTaskId] =
            [NoTask EXCEPT !.status = "RUNNING", !.current = TRUE,
                           !.gate = "start"]]
    /\ UNCHANGED <<executions, svars>>

\* a new deployment of the service: the running tasks belong to the old one
Deploy ==
    /\ \E t \in Running : tasks[t].current
    /\ FreeTaskIds # {}
    /\ tasks' = [t \in TaskIds |-> [tasks[t] EXCEPT !.current = FALSE]]
    /\ UNCHANGED <<executions, svars>>

StoppedTask(task) ==
    [task EXCEPT !.status = "STOPPED",
                 !.gate = IF task.gate = "exited" THEN "exited" ELSE "stopped",
                 !.served = IF task.served = "running" THEN "stopped" ELSE task.served]

\* the service scheduler stops a task of an old deployment
StopOldTask(t) ==
    /\ tasks[t].status = "RUNNING"
    /\ ~tasks[t].current
    /\ CanStop(Cardinality(Running))
    /\ tasks' = [tasks EXCEPT ![t] = StoppedTask(tasks[t])]
    /\ UNCHANGED <<executions, svars>>

\* `aws configure set ... && aws configure set ... &&
\*  EXECUTION_ARN=$(aws stepfunctions start-execution ...)` with success:
\* an execution with input {} is started
GateStartExecution(t) ==
    /\ tasks[t].status = "RUNNING"
    /\ tasks[t].gate = "start"
    /\ FreeExecIds # {}
    /\ executions' = [executions EXCEPT ![NextExecId] = NewExecution(EmptyInput)]
    /\ tasks' = [tasks EXCEPT ![t].arn = NextExecId, ![t].gate = "poll"]
    /\ UNCHANGED svars

\* a command of the && list fails (configure or start-execution): no
\* execution, the list skips the loop and the script ends with the failure's
\* status
GateStartExecutionFails(t) ==
    /\ tasks[t].status = "RUNNING"
    /\ tasks[t].gate = "start"
    /\ tasks' = [tasks EXCEPT ![t].gate = "exited", ![t].exitCode = 255]
    /\ UNCHANGED <<executions, svars>>

\* $(aws stepfunctions describe-execution ... --query status), word-split:
\* the status on success, nothing when the command fails
DescribeOutput(ok, arn) == IF ok THEN <<executions[arn].status>> ELSE <<>>

\* exit status of `[ words != rhs ]`; with no word on the left test sees
\* `[ != rhs ]` and fails with "unary operator expected"
TestNotEqualQuoted(words, rhs) ==
    IF Len(words) = 1 THEN (IF words[1] # rhs THEN 0 ELSE 1) ELSE 0
TestNotEqual(words, rhs) ==
    IF Len(words) = 1 THEN (IF words[1] # rhs THEN 0 ELSE 1) ELSE 2

\* `until [ $(...) != RUNNING ]`: the loop ends when the test exits 0
LoopDoneOnSuccessOnly(words) == words = <<"SUCCEEDED">>
LoopDone(words) == TestNotEqual(words, "RUNNING") = 0

\* one evaluation of the until condition, and when the loop goes on its body
\* (echo "Waiting for $EXECUTION_ARN"; sleep 10); the loop's status is 0 when
\* it ends
GateDescribe(t, ok) ==
    /\ tasks[t].status = "RUNNING"
    /\ tasks[t].gate = "poll"
    /\ LET done == LoopDone(DescribeOutput(ok, tasks[t].arn)) IN
       tasks' = [tasks EXCEPT
            ![t].gate = IF done THEN "exited" ELSE "poll",
            ![t].exitCode = IF done THEN 0 ELSE -1]
    /\ UNCHANGED <<executions, svars>>

\* addContainerDependencies({ container: aws-cli, condition: COMPLETE })
DependencyCondition == "COMPLETE"

DependencySatisfied(task) ==
    CASE DependencyCondition = "COMPLETE" -> task.gate = "exited"
      [] DependencyCondition = "SUCCESS" -> task.gate = "exited" /\ task.exitCode = 0
      [] DependencyCondition = "START" -> task.gate # "pending"

\* the default container starts once its dependency is satisfied
ServedStart(t) ==
    /\ tasks[t].status = "RUNNING"
    /\ tasks[t].served = "waiting"
    /\ DependencySatisfied(tasks[t])
    /\ tasks' = [tasks EXCEPT ![t].served = "running"]
    /\ UNCHANGED <<executions, svars>>

\* the default container is essential: when it exits the task stops
ServedExit(t) ==
    /\ tasks[t].status = "RUNNING"
    /\ tasks[t].served = "running"
    /\ tasks' = [tasks EXCEPT ![t] = StoppedTask(tasks[t])]
    /\ UNCHANGED <<executions, svars>>

(***************************************************************************)
(* The constructor, as a function of its props                             *)
(***************************************************************************)
\* hostedZone.zoneName and the names a caller may list
ZoneName == "example.com"
RecordNames == {"example.com", "www.example.com"}
HostInstanceIp == "HostInstanceIp.ref"
CertPath == "/etc/letsencrypt"

SeqsUpTo(S, n) == UNION {[1..k -> S] : k \in 0..n}

RemovalPolicies == {"DESTROY", "RETAIN", "SNAPSHOT"}

Container(name, essential, ports) ==
    [name |-> name, essential |-> essential, portMappings |-> ports,
     mountPoints |-> {}, dependsOn |-> {}]

TaskDefinition(containers) == [containers |-> containers, volumes |-> {}]

\* task definitions a caller may build before handing them over
SuppliedContainers ==
    {<<>>,
     <<Container("app", TRUE, {})>>,
     <<Container("sidecar", FALSE, {})>>,
     <<Container("sidecar", FALSE, {}), Container("app", TRUE, {})>>}

\* containers a caller may add to its own task definition afterwards
LaterContainers == {Container("late", TRUE, {}), Container("helper", FALSE, {})}

\* EasyCerverProps: the optional props the claims are about
PropsSet ==
    [recordDomainNames : [given : BOOLEAN, value : SeqsUpTo(RecordNames, MaxRecords)],
     removalPolicy : {None} \cup RemovalPolicies,
     logGroup : {None, "DESTROY", "RETAIN"},
     serverTaskDefinition : [given : BOOLEAN, containers : SuppliedContainers]]

\* a props value is written one way when an option is left out
WellFormed(p) ==
    /\ ~p.recordDomainNames.given => p.recordDomainNames.value = <<>>
    /\ ~p.serverTaskDefinition.given => p.serverTaskDefinition.containers = <<>>

DefaultProps ==
    [recordDomainNames |-> [given |-> FALSE, value |-> <<>>],
     removalPolicy |-> None,
     logGroup |-> None,
     serverTaskDefinition |-> [given |-> FALSE, containers |-> <<>>]]

\* TaskDefinition.defaultContainer: the first essential container added
\* (0 when there is none)
DefaultContainer(td) ==
    LET ess == {i \in 1..Len(td.containers) : td.containers[i].essential} IN
    IF ess = {} THEN 0 ELSE CHOOSE i \in ess : \A j \in ess : i <= j

AddVolume(td, name) == [td EXCEPT !.volumes = @ \cup {name}]

AddContainer(td, c) == [td EXCEPT !.containers = Append(@, c)]

AddMountPoint(td, i, mp) ==
    [td EXCEPT !.containers[i].mountPoints = @ \cup {mp}]

AddDependency(td, i, dep) ==
    [td EXCEPT !.containers[i].dependsOn = @ \cup {dep}]

MountPoint(readOnly) ==
    [sourceVolume |-> "certVolume", containerPath |-> CertPath, readOnly |-> readOnly]

\* const records = props.recordDomainNames ?? [hostedZone.zoneName]
ResolveRecordsOrEmpty(p) ==
    IF p.recordDomainNames.given /\ p.recordDomainNames.value # <<>>
    THEN p.recordDomainNames.value ELSE <<ZoneName>>
ResolveRecords(p) ==
    IF p.recordDomainNames.given THEN p.recordDomainNames.value ELSE <<ZoneName>>

\* new route53.ARecord(this, `ARecord${record}`, ...)
ARecord(record) ==
    [id |-> <<"ARecord", record>>, recordName |-> record, target |-> HostInstanceIp]

\* a second construct with an id already used in the scope throws
DuplicateId(records) ==
    \E i, j \in 1..Len(records) : i < j /\ ARecord(records[i]).id = ARecord(records[j]).id

\* removalPolicy: props.removalPolicy ?? RemovalPolicy.DESTROY
ResolveRemovalPolicyRetain(p) ==
    IF p.removalPolicy = None THEN "RETAIN" ELSE p.removalPolicy
ResolveRemovalPolicy(p) ==
    IF p.removalPolicy = None THEN "DESTROY" ELSE p.removalPolicy

\* props.logGroup ?? new LogGroup(this, "LogGroup", { removalPolicy: ... })
ResolveLogGroup(p) ==
    IF p.logGroup = None
    THEN [created |-> TRUE, removalPolicy |-> ResolveRemovalPolicy(p)]
    ELSE [created |-> FALSE, removalPolicy |-> p.logGroup]

\* certbotTaskDefinition with its container, volume and mount point
CertbotTaskDefinition ==
    AddMountPoint(
        AddVolume(TaskDefinition(<<Container("certbot", TRUE, {})>>), "certVolume"),
        1, MountPoint(FALSE))

\* sampleSeverTask: the nginx container on host ports 80 and 443
SampleSeverTask ==
    TaskDefinition(<<Container("nginx", TRUE,
        {[hostPort |-> 80, containerPort |-> 80, protocol |-> "tcp"],
         [hostPort |-> 443, containerPort |-> 443, protocol |-> "tcp"]})>>)

\* serverTaskDefinition.defaultContainer?.addMountPoints(...)
WithCertMount(td) ==
    IF DefaultContainer(td) = 0 THEN td
    ELSE AddMountPoint(td, DefaultContainer(td), MountPoint(TRUE))

\* serverTaskDefinition.defaultContainer?.addContainerDependencies({
\*   container: serverTaskDefinition.addContainer("AWSCliContainer", ...), ...})
\* the argument is not evaluated when there is no default container
WithGate(td) ==
    IF DefaultContainer(td) = 0 THEN td
    ELSE AddDependency(AddContainer(td, Container("aws-cli", FALSE, {})),
                       DefaultContainer(td),
                       [container |-> "aws-cli", condition |-> DependencyCondition])

\* lines 340-385
ServerTaskDefinition(p) ==
    LET td == IF p.serverTaskDefinition.given
              THEN TaskDefinition(p.serverTaskDefinition.containers)
              ELSE SampleSeverTask
    IN WithGate(WithCertMount(AddVolume(td, "certVolume")))

NoStack ==
    [aRecords |-> <<>>, fileSystem |-> [removalPolicy |-> None],
     logGroup |-> [created |-> FALSE, removalPolicy |-> None],
     certbot |-> TaskDefinition(<<>>), server |-> TaskDefinition(<<>>)]

\* what the constructor leaves in the stack when it returns
BuildStack(p) ==
    [aRecords |-> [i \in 1..Len(ResolveRecords(p)) |-> ARecord(ResolveRecords(p)[i])],
     fileSystem |-> [removalPolicy |-> ResolveRemovalPolicy(p)],
     logGroup |-> ResolveLogGroup(p),
     certbot |-> CertbotTaskDefinition,
     server |-> ServerTaskDefinition(p)]

\* new EasyCerver(scope, id, props)
Construct ==
    /\ phase = "init"
    /\ IF DuplicateId(ResolveRecords(props))
       THEN phase' = "threw" /\ stack' = NoStack
       ELSE phase' = "constructed" /\ stack' = BuildStack(props)
    /\ UNCHANGED <<props, rvars>>

\* the caller adds a container to the task definition it supplied, after
\* the stack was constructed and before synthesis
AddContainerLater(c) ==
    /\ phase = "constructed"
    /\ props.serverTaskDefinition.given
    /\ \A i \in 1..Len(stack.server.containers) : stack.server.containers[i].name # c.name
    /\ stack' = [stack EXCEPT !.server = AddContainer(@, c)]
    /\ UNCHANGED <<props, phase, rvars>>

\* synthesis validates the service: its task definition needs a default
\* (essential) container
Synthesize ==
    /\ phase = "constructed"
    /\ phase' = IF DefaultContainer(stack.server) = 0 THEN "invalid" ELSE "synthesized"
    /\ UNCHANGED <<props, stack, rvars>>

(***************************************************************************)
(* Specifications                                                          *)
(***************************************************************************)
\* the deployed default stack: no execution yet, no task yet
Init ==
    /\ executions = [e \in ExecIds |-> NoExecution]
    /\ tasks = [t \in TaskIds |-> NoTask]
    /\ props = DefaultProps
    /\ phase = "synthesized"
    /\ stack = BuildStack(DefaultProps)

Workflow ==
    \/ \E e \in ExecIds : JobSucceed(e)
    \/ \E e \in ExecIds : JobFailRetry(e)
    \/ \E e \in ExecIds, err \in ErrorNames : JobFailCatch(e, err)
    \/ \E e \in ExecIds : RetryFire(e)
    \/ \E e \in ExecIds : SendEmailOnFailure(e)
    \/ \E e \in ExecIds : Fail(e)

Service ==
    \/ LaunchTask
    \/ Deploy
    \/ \E t \in TaskIds : StopOldTask(t)
    \/ \E t \in TaskIds : ServedStart(t)
    \/ \E t \in TaskIds : ServedExit(t)

Gate ==
    \/ \E t \in TaskIds : GateStartExecution(t)
    \/ \E t \in TaskIds : GateStartExecutionFails(t)
    \/ \E t \in TaskIds, ok \in BOOLEAN : GateDescribe(t, ok)

Next == ScheduleFire \/ Workflow \/ Service \/ Gate

Spec == Init /\ [][Next]_vars

\* the constructor applied to any props
SynthInit ==
    /\ executions = [e \in ExecIds |-> NoExecution]
    /\ tasks = [t \in TaskIds |-> NoTask]
    /\ props \in {p \in PropsSet : WellFormed(p)}
    /\ phase = "init"
    /\ stack = NoStack

SynthNext ==
    \/ Construct
    \/ \E c \in LaterContainers : AddContainerLater(c)
    \/ Synthesize

SynthSpec == SynthInit /\ [][SynthNext]_vars

\* the service with the executions its own tasks start (an execution the
\* schedule rule starts shares no state with them), under the scheduling the
\* platform gives: a container whose dependency is satisfied is started, and
\* describe-execution, called every 10 seconds, does not fail for ever
StartupNext == Workflow \/ Service \/ Gate

Fairness ==
    /\ \A t \in TaskIds : WF_vars(ServedStart(t))
    /\ \A t \in TaskIds : SF_vars(GateDescribe(t, TRUE))

FairSpec == Init /\ [][StartupNext]_vars /\ Fairness

(***************************************************************************)
(* Properties                                                              *)
(***************************************************************************)
Terminal == {"SUCCEEDED", "FAILED"}

\* the execution a task's aws-cli container started is RUNNING
GateExecutionRunning(t) ==
    tasks[t].arn # 0 /\ executions[tasks[t].arn].status = "RUNNING"

\* C1: while the execution started by a task's aws-cli container is RUNNING,
\* that container has not exited and the task's default container has not
\* been started, whatever start-execution and describe-execution returned.
C1_Theorem ==
    \A t \in TaskIds :
        GateExecutionRunning(t) =>
            tasks[t].gate # "exited" /\ tasks[t].served = "waiting"

\* a describe-execution answer is awaited while the execution is in its
\* third retry wait
C1_Witness ==
    \E t \in TaskIds :
        /\ GateExecutionRunning(t)
        /\ executions[tasks[t].arn].wait = 80
        /\ tasks[t].gate = "poll"
        /\ tasks[t].served = "waiting"

\* C2: once the execution a task's aws-cli container started is terminal
\* (SUCCEEDED or FAILED), the container eventually exits with status 0 and
\* the default container is started, unless the task is stopped first.
C2_Theorem ==
    \A t \in TaskIds :
        (tasks[t].arn # 0 /\ executions[tasks[t].arn].status \in Terminal)
            ~> (\/ tasks[t].status = "STOPPED"
                \/ /\ tasks[t].gate = "exited"
                   /\ tasks[t].exitCode = 0
                   /\ tasks[t].served = "running")

\* the default container runs after a failed renewal
C2_Witness ==
    \E t \in TaskIds :
        /\ tasks[t].arn # 0
        /\ executions[tasks[t].arn].status = "FAILED"
        /\ tasks[t].gate = "exited"
        /\ tasks[t].exitCode = 0
        /\ tasks[t].served = "running"

\* C3: an execution that leaves CreateCertificate by success ends SUCCEEDED
\* with nothing published; it leaves CreateCertificate by failure only with
\* its retries used up, then SendEmailOnFailure publishes one message and
\* the execution ends FAILED in the Fail state.
C3_Routing(e) ==
    /\ (executions[e].state = "CreateCertificate" /\ executions'[e].state = "End")
         => executions'[e].status = "SUCCEEDED" /\ executions'[e].published = <<>>
    /\ (executions[e].state = "CreateCertificate"
          /\ executions'[e].state \notin {"CreateCertificate", "End"})
         => /\ executions[e].retries = 3
            /\ executions'[e].state = "SendEmailOnFailure"
            /\ executions'[e].status = "RUNNING"
    /\ (executions[e].state = "SendEmailOnFailure" /\ executions'[e].state # "SendEmailOnFailure")
         => executions'[e].state = "Fail" /\ Len(executions'[e].published) = 1

C3_Ends(e) ==
    /\ executions[e].status = "SUCCEEDED"
         => executions[e].state = "End" /\ executions[e].published = <<>>
    /\ executions[e].status = "FAILED"
         => executions[e].state = "Fail" /\ Len(executions[e].published) = 1

C3_Theorem ==
    /\ [](\A e \in ExecIds : C3_Ends(e))
    /\ [][\A e \in ExecIds : C3_Routing(e)]_vars

\* a schedule-started execution has failed and a gate-started one succeeded
C3_Witness ==
    \E e, f \in ExecIds :
        /\ executions[e].input = ScheduledEvent
        /\ executions[e].status = "FAILED"
        /\ Len(executions[e].published) = 1
        /\ executions[f].input = EmptyInput
        /\ executions[f].status = "SUCCEEDED"

\* the execution was started by a task's aws-cli container
GateStarted(e) == \E t \in TaskIds : tasks[t].arn = e

\* C4 as stated: an execution the schedule rule started and one the aws-cli
\* container started never run the certbot task at the same time.
C4_Original ==
    \A e, f \in ExecIds :
        (e # f /\ executions[e].input = ScheduledEvent /\ GateStarted(f))
            => ~(executions[e].jobs > 0 /\ executions[f].jobs > 0)

\* C4 amended: within one execution at most one certbot task runs at a time
\* and it is run again only by a retry, at most three times; executions are
\* not serialised against each other.
C4_Theorem ==
    /\ [](\A e \in ExecIds : executions[e].jobs <= 1 /\ executions[e].retries <= 3)
    /\ [][\A e \in ExecIds :
            executions'[e].jobs > executions[e].jobs =>
                \/ executions[e].status = "NONE"
                \/ executions[e].wait > 0 /\ executions[e].retries \in 1..3]_vars

\* a schedule-started and a gate-started execution run the certbot task at
\* the same time, the first of them in its third retry
C4_Witness ==
    \E e, f \in ExecIds :
        /\ e # f
        /\ executions[e].input = ScheduledEvent /\ GateStarted(f)
        /\ executions[e].jobs = 1 /\ executions[f].jobs = 1
        /\ executions[e].retries = 3

\* C5 as stated: every published message contains the execution's input.
C5_Original ==
    \A e \in ExecIds : \A i \in 1..Len(executions[e].published) :
        Contains(executions[e].published[i], executions[e].input)

\* C5 amended: every published message is the error output (Error, Cause) of
\* the failed CreateCertificate state, and no field of the execution's input
\* is in it.
C5_Theorem ==
    \A e \in ExecIds : \A i \in 1..Len(executions[e].published) :
        /\ executions[e].published[i] \in {ErrorOutput(err) : err \in ErrorNames}
        /\ DOMAIN executions[e].published[i] \cap DOMAIN executions[e].input = {}

\* a schedule-started execution has published its failure
C5_Witness ==
    \E e \in ExecIds :
        /\ executions[e].input = ScheduledEvent
        /\ Len(executions[e].published) = 1

\* host ports a task holds: those of its started default container
HostPorts(t) ==
    IF tasks[t].served = "running"
    THEN {pm.hostPort : pm \in stack.server.containers[DefaultContainer(stack.server)].portMappings}
    ELSE {}

\* a task of the service is launched in this step
Launched == \E t \in TaskIds : tasks[t].status = "NONE" /\ tasks'[t].status = "RUNNING"

\* C6: at most one task of the service is running, no two tasks hold the same
\* host port, and a task is launched only when no task is running.
C6_Theorem ==
    /\ [](/\ Cardinality(Running) <= 1
          /\ \A t, u \in TaskIds : t # u => HostPorts(t) \cap HostPorts(u) = {})
    /\ [][Launched => Running = {}]_vars

\* after a redeploy: the old task is stopped, the new one holds 80 and 443
C6_Witness ==
    \E t, u \in TaskIds :
        /\ tasks[t].status = "STOPPED" /\ ~tasks[t].current
        /\ tasks[u].status = "RUNNING" /\ tasks[u].current
        /\ HostPorts(u) = {80, 443}

\* C7 as stated: every retry wait is 20 seconds.
C7_Original ==
    \A e \in ExecIds : executions[e].wait > 0 => executions[e].wait = 20

\* C7 amended: the wait before the first retry is 20 seconds and each later
\* wait is twice the one before (20, 40, 80).
C7_Theorem ==
    \A e \in ExecIds :
        executions[e].wait > 0 =>
            \/ executions[e].retries = 1 /\ executions[e].wait = 20
            \/ executions[e].retries = 2 /\ executions[e].wait = 40
            \/ executions[e].retries = 3 /\ executions[e].wait = 80

\* an execution waits before its third retry
C7_Witness ==
    \E e \in ExecIds : executions[e].retries = 3 /\ executions[e].wait > 0

\* the constructor has returned a stack
Built == phase \in {"constructed", "synthesized", "invalid"}

\* mount points of the certificate volume in the containers of a task
CertMounts(td) ==
    UNION {{mp \in td.containers[i].mountPoints : mp.sourceVolume = "certVolume"} :
            i \in 1..Len(td.containers)}

\* C8 as stated: in every synthesized stack the server task has a read-only
\* mount of the certificate volume at /etc/letsencrypt and no writable one,
\* and the certbot task has a writable mount of it at the same path.
C8_Original ==
    phase = "synthesized" =>
        /\ MountPoint(TRUE) \in CertMounts(stack.server)
        /\ \A mp \in CertMounts(stack.server) : mp.readOnly
        /\ MountPoint(FALSE) \in CertMounts(stack.certbot)

\* the list the A records are made from
ResolvedList ==
    IF props.recordDomainNames.given THEN props.recordDomainNames.value
    ELSE <<"example.com">>

Repeats(list) == \E i, j \in 1..Len(list) : i < j /\ list[i] = list[j]

\* C9 as stated: for any props the constructor returns a stack with one A
\* record per entry of the resolved list.
C9_Original ==
    phase # "init" =>
        /\ phase # "threw"
        /\ Len(stack.aRecords) = Len(ResolvedList)

\* C9 amended: when no name is repeated in the resolved list the stack has one
\* A record per entry, each for that entry and with the elastic IP as target;
\* when a name is repeated the constructor throws.
C9_Theorem ==
    /\ Built =>
        /\ ~Repeats(ResolvedList)
        /\ Len(stack.aRecords) = Len(ResolvedList)
        /\ \A i \in 1..Len(ResolvedList) :
            /\ stack.aRecords[i].recordName = ResolvedList[i]
            /\ stack.aRecords[i].target = HostInstanceIp
    /\ phase = "threw" => Repeats(ResolvedList)

\* a stack built from a list of two names
C9_Witness ==
    /\ Built
    /\ props.recordDomainNames.given
    /\ Len(stack.aRecords) = 2

\* C10 as stated: with removalPolicy unset the file system and the log group
\* the stack uses are DESTROY; with a non-default removalPolicy neither is,
\* whatever the other props.
C10_Original ==
    Built =>
        /\ props.removalPolicy = None =>
            /\ stack.fileSystem.removalPolicy = "DESTROY"
            /\ stack.logGroup.removalPolicy = "DESTROY"
        /\ props.removalPolicy \notin {None, "DESTROY"} =>
            /\ stack.fileSystem.removalPolicy # "DESTROY"
            /\ stack.logGroup.removalPolicy # "DESTROY"

\* C10 amended: with removalPolicy unset the file system and the log group the
\* stack creates are DESTROY; a given removalPolicy is the policy of both; a
\* log group the caller supplies is used as it is.
C10_Theorem ==
    Built =>
        /\ props.removalPolicy = None =>
            /\ stack.fileSystem.removalPolicy = "DESTROY"
            /\ props.logGroup = None => stack.logGroup.removalPolicy = "DESTROY"
        /\ props.removalPolicy # None =>
            /\ stack.fileSystem.removalPolicy = props.removalPolicy
            /\ props.logGroup = None => stack.logGroup.removalPolicy = props.removalPolicy
        /\ props.logGroup = None <=> stack.logGroup.created
        /\ props.logGroup # None => stack.logGroup.removalPolicy = props.logGroup

\* a stack built with removalPolicy RETAIN and its own log group
C10_Witness ==
    /\ Built
    /\ props.removalPolicy = "RETAIN"
    /\ props.logGroup = None
    /\ stack.logGroup.removalPolicy = "RETAIN"
    /\ stack.fileSystem.removalPolicy = "RETAIN"

\* the executions the schedule rule starts, under the scheduling the state
\* machine service gives: a certbot task that runs comes to an end (the
\* claim's proviso), a retry wait ends, and a state that can be left is left
WorkflowNext == ScheduleFire \/ Workflow

JobEnds(e) ==
    JobSucceed(e) \/ JobFailRetry(e) \/ \E err \in ErrorNames : JobFailCatch(e, err)

WorkflowFairness ==
    \A e \in ExecIds :
        /\ WF_vars(JobEnds(e))
        /\ WF_vars(RetryFire(e))
        /\ WF_vars(SendEmailOnFailure(e))
        /\ WF_vars(Fail(e))

WorkflowFairSpec == Init /\ [][WorkflowNext]_vars /\ WorkflowFairness

\* the catcher has been taken
InCatchBranch(e) == executions[e].state \in {"SendEmailOnFailure", "Fail"}

\* C11: every execution ends SUCCEEDED or FAILED when each run of the certbot
\* task ends; the task is retried at most three times; once the catch branch
\* is entered the execution stays in it with no certbot task running or
\* waiting to be run; at most one message is published per execution.
C11_Theorem ==
    /\ [](\A e \in ExecIds :
            /\ executions[e].retries <= 3
            /\ Len(executions[e].published) <= 1
            /\ InCatchBranch(e) =>
                executions[e].jobs = 0 /\ executions[e].wait = 0)
    /\ [][\A e \in ExecIds :
            /\ InCatchBranch(e) => InCatchBranch(e)'
            /\ executions[e].status \in Terminal => executions'[e] = executions[e]]_vars
    /\ \A e \in ExecIds :
            (executions[e].status = "RUNNING") ~> (executions[e].status \in Terminal)

\* an execution has ended in Fail after its one message
C11_Witness ==
    \E e \in ExecIds :
        /\ executions[e].status = "FAILED"
        /\ executions[e].state = "Fail"
        /\ executions[e].jobs = 0
        /\ Len(executions[e].published) = 1

====
